---- MODULE Spec2Model ----
(***************************************************************************)
(* BareMetalDeque<T, MAX_STORED> (src/src/lib.rs): a fixed-size deque kept *)
(* in a ring buffer.  The state is the struct's three fields; every public *)
(* method is one action.  Beside the struct the model keeps history        *)
(* variables (the last call, its argument and result, the state before it, *)
(* an abstract sequence, call counters) that the code does not have and    *)
(* that never influence the struct's fields.                               *)
(*                                                                         *)
(* T is an integer type; indices stay far below usize::MAX, so the sums    *)
(* start + index and start + size never overflow in the model.             *)
(***************************************************************************)
EXTENDS Integers, Sequences, FiniteSets

\* ---------------------------------------------------------------- bounds
\* The capacity the deque is instantiated with (the const generic MAX_STORED).
MAX_STORED == 3
\* Values pushed or written are 1..MaxVal; none equals T::default().
MaxVal == 2
\* Successful pushes in one run are capped, which keeps the counters finite.
MaxPushes == 5

\* T::default() for the integer element types the tests use.
T_default == 0

Values == 1 .. MaxVal
\* Indices handed to index / index_mut: every in-range index and out-of-range
\* ones up to MAX_STORED (which wraps onto the slot of the front element).
Indices == 0 .. MAX_STORED

VARIABLES
    array,   \* the field array: [T; MAX_STORED], slots 0 .. MAX_STORED-1
    start,   \* the field start
    size,    \* the field size
    op,      \* history: name of the last method called
    arg,     \* history: its arguments, as a sequence
    res,     \* history: its result, [kind, val]
    old,     \* history: the fields and run trackers before the last call
    seq,     \* history: the abstract sequence run side by side
    pushes,  \* history: number of pushes that returned
    pops,    \* history: number of pops that returned Some
    fifo,    \* history: what pop_front is due to return, in order, in the
             \*   current run of push_back / pop_front calls
    fstack,  \* history: values pushed by push_front in the current run of
             \*   push_front / pop_front calls and not yet popped, newest first
    bstack,  \* history: same for push_back / pop_back
    rfifo,   \* history: what pop_back is due to return, in order, in the
             \*   current run of push_front / pop_back calls
    trip     \* history: when the last two calls were a push that returned and
             \*   the pop at the same end, the state before that push

fields == <<array, start, size>>
trackers == <<seq, pushes, pops, fifo, fstack, bstack, rfifo>>
vars == <<array, start, size, op, arg, res, old, seq, pushes, pops,
          fifo, fstack, bstack, rfifo, trip>>

\* ------------------------------------------------------------ Option<T>
None == <<>>
Some(v) == <<v>>

\* ------------------------------------------------------- pure functions
\* self.array.len()
array_len == MAX_STORED

\* The slot an index maps to, lines 57 and 63.
index_slot_nostart(i) == i % array_len
index_slot(i) == (start + i) % array_len

\* Index::index, line 57: no comparison of index with size.
index(i) == array[index_slot(i)]

len == size

is_empty == len = 0

\* iter, line 87: (0..self.len()).map(|i| &self[i]), collected.
iter_offbyone == [k \in 1 .. len |-> index(k)]
iter == [k \in 1 .. len |-> index(k - 1)]

front_nocheck == Some(array[start])
front_offbyone == IF size > 1 THEN Some(array[start]) ELSE None
front == IF size > 0 THEN Some(array[start]) ELSE None

\* The slot back() reads, line 135.
back_slot_offbyone == (start + size) % array_len
back_slot == (start + size - 1) % array_len

back_offbyone == IF size > 1 THEN Some(array[back_slot]) ELSE None
back == IF size > 0 THEN Some(array[back_slot]) ELSE None

\* The full tests of push_front (line 91) and push_back (line 100).
push_front_full_never == size > array_len
push_front_full == size = array_len
push_back_full_never == size > array_len
push_back_full == size = array_len

\* push_front's new start, line 94.
push_front_start_nowrap == start - 1
push_front_start_offbyone == (IF start = 0 THEN array_len - 1 ELSE start) - 1
push_front_start == (IF start = 0 THEN array_len ELSE start) - 1

\* push_back's slot, line 103.
push_back_index_offbyone == (start + size + 1) % array_len
push_back_index_nostart == size % array_len
push_back_index == (start + size) % array_len

\* pop_front's new start, line 111.
pop_front_start_stuck == start
pop_front_start_nowrap == start + 1
pop_front_start == (start + 1) % array_len

\* ------------------------------------------------------------- history
running == res.kind # "Panic"

Reverse(s) == [k \in 1 .. Len(s) |-> s[Len(s) + 1 - k]]

Pre == [array |-> array, start |-> start, size |-> size,
        fifo |-> fifo, fstack |-> fstack, bstack |-> bstack,
        rfifo |-> rfifo, elems |-> iter, seq |-> seq]

NoTrip == [on |-> FALSE, value |-> T_default, start |-> 0, size |-> 0,
           elems |-> <<>>]

\* A call o that follows a push that returned, o being the pop at the same
\* end: old still holds the state before that push.
TripOf(o) ==
    IF /\ res.kind = "Unit"
       /\ \/ o = "pop_back" /\ op = "push_back"
          \/ o = "pop_front" /\ op = "push_front"
    THEN [on |-> TRUE, value |-> arg[1], start |-> old.start,
          size |-> old.size, elems |-> old.elems]
    ELSE NoTrip

Call(o, a, k, v) ==
    /\ op' = o
    /\ arg' = a
    /\ res' = [kind |-> k, val |-> v]
    /\ old' = Pre
    /\ trip' = TripOf(o)

\* panic!("Queue is full"): nothing is written, nothing runs afterwards.
Panic(o, a) ==
    /\ Call(o, a, "Panic", <<>>)
    /\ UNCHANGED fields
    /\ UNCHANGED trackers

\* ------------------------------------------------------------------ Init
\* Default::default / new, lines 68-76.
Init ==
    /\ array = [s \in 0 .. MAX_STORED - 1 |-> T_default]
    /\ start = 0
    /\ size = 0
    /\ op = "new"
    /\ arg = <<>>
    /\ res = [kind |-> "Self", val |-> <<>>]
    /\ old = [array |-> [s \in 0 .. MAX_STORED - 1 |-> T_default],
              start |-> 0, size |-> 0,
              fifo |-> <<>>, fstack |-> <<>>, bstack |-> <<>>,
              rfifo |-> <<>>, elems |-> <<>>, seq |-> <<>>]
    /\ seq = <<>>
    /\ pushes = 0
    /\ pops = 0
    /\ fifo = <<>>
    /\ fstack = <<>>
    /\ bstack = <<>>
    /\ rfifo = <<>>
    /\ trip = NoTrip

\* --------------------------------------------------------------- actions
push_front(value) ==
    /\ running
    /\ pushes < MaxPushes
    /\ IF push_front_full
       THEN Panic("push_front", <<value>>)
       ELSE /\ start' = push_front_start
            /\ array' = [array EXCEPT ![start'] = value]
            /\ size' = size + 1
            /\ Call("push_front", <<value>>, "Unit", <<>>)
            /\ seq' = <<value>> \o seq
            /\ pushes' = pushes + 1
            /\ fstack' = <<value>> \o fstack
            /\ bstack' = <<>>
            /\ fifo' = iter'
            /\ rfifo' = Append(rfifo, value)
            /\ UNCHANGED pops

push_back(value) ==
    /\ running
    /\ pushes < MaxPushes
    /\ IF push_back_full
       THEN Panic("push_back", <<value>>)
       ELSE /\ array' = [array EXCEPT ![push_back_index] = value]
            /\ size' = size + 1
            /\ UNCHANGED start
            /\ Call("push_back", <<value>>, "Unit", <<>>)
            /\ seq' = Append(seq, value)
            /\ pushes' = pushes + 1
            /\ fifo' = Append(fifo, value)
            /\ bstack' = <<value>> \o bstack
            /\ fstack' = <<>>
            /\ rfifo' = Reverse(iter')
            /\ UNCHANGED pops

pop_front ==
    /\ running
    /\ LET result == front IN
       /\ Call("pop_front", <<>>, "Option", result)
       /\ IF result # None
          THEN /\ start' = pop_front_start
               /\ size' = size - 1
               /\ UNCHANGED array
               /\ seq' = IF seq = <<>> THEN seq ELSE Tail(seq)
               /\ pops' = pops + 1
               /\ fifo' = IF fifo = <<>> THEN fifo ELSE Tail(fifo)
               /\ fstack' = IF fstack = <<>> THEN fstack ELSE Tail(fstack)
               /\ bstack' = <<>>
               /\ rfifo' = Reverse(iter')
               /\ UNCHANGED pushes
          ELSE /\ UNCHANGED fields
               /\ UNCHANGED trackers

pop_back ==
    /\ running
    /\ LET result == back IN
       /\ Call("pop_back", <<>>, "Option", result)
       /\ IF result # None
          THEN /\ size' = size - 1
               /\ UNCHANGED <<array, start>>
               /\ seq' = IF seq = <<>> THEN seq ELSE SubSeq(seq, 1, Len(seq) - 1)
               /\ pops' = pops + 1
               /\ bstack' = IF bstack = <<>> THEN bstack ELSE Tail(bstack)
               /\ fstack' = <<>>
               /\ fifo' = iter'
               /\ rfifo' = IF rfifo = <<>> THEN rfifo ELSE Tail(rfifo)
               /\ UNCHANGED pushes
          ELSE /\ UNCHANGED fields
               /\ UNCHANGED trackers

\* q[i] = value: IndexMut::index_mut hands out the slot, the caller stores.
index_mut(i, value) ==
    /\ running
    /\ array' = [array EXCEPT ![index_slot(i)] = value]
    /\ UNCHANGED <<start, size>>
    /\ Call("index_mut", <<i, value>>, "Unit", <<>>)
    /\ seq' = IF i < Len(seq) THEN [seq EXCEPT ![i + 1] = value] ELSE seq
    /\ fifo' = iter'
    /\ fstack' = <<>>
    /\ bstack' = <<>>
    /\ rfifo' = Reverse(iter')
    /\ UNCHANGED <<pushes, pops>>

\* The &self methods: they return and write nothing.
Query_consuming(o, a, k, v) ==
    /\ running
    /\ Call(o, a, k, v)
    /\ size' = IF size > 0 THEN size - 1 ELSE size
    /\ UNCHANGED <<array, start>>
    /\ UNCHANGED trackers
Query(o, a, k, v) ==
    /\ running
    /\ Call(o, a, k, v)
    /\ UNCHANGED fields
    /\ UNCHANGED trackers

call_index(i) == Query("index", <<i>>, "Ref", <<index(i)>>)
call_len == Query("len", <<>>, "usize", <<len>>)
call_is_empty == Query("is_empty", <<>>, "bool", <<IF is_empty THEN 1 ELSE 0>>)
call_iter == Query("iter", <<>>, "Iterator", iter)
call_front == Query("front", <<>>, "Option", front)
call_back == Query("back", <<>>, "Option", back)

Next ==
    \/ \E v \in Values : push_front(v)
    \/ \E v \in Values : push_back(v)
    \/ pop_front
    \/ pop_back
    \/ \E i \in Indices : call_index(i)
    \/ call_len
    \/ call_is_empty
    \/ call_iter
    \/ call_front
    \/ call_back

\* The deque driven through its methods and through reads by index.
Spec == Init /\ [][Next]_vars

\* The same, with writes through IndexMut as well.
NextIndexed ==
    \/ Next
    \/ \E i \in Indices, v \in Values : index_mut(i, v)

SpecIndexed == Init /\ [][NextIndexed]_vars

\* ---------------------------------------------------------------- claims
Pushed == op \in {"push_front", "push_back"} /\ res.kind = "Unit"
Popped == op \in {"pop_front", "pop_back"} /\ res.val # None

\* C1: in a run of push_back and pop_front calls begun in any reachable state,
\* every successful pop_front returns the oldest value not yet returned (the
\* values that were in the deque, front first, then the values pushed, in push
\* order), and the values still due are exactly as many as the live elements.
C1_Fifo ==
    /\ Len(fifo) = len
    /\ (op = "pop_front" /\ res.val # None) =>
          /\ old.fifo # <<>>
          /\ res.val = Some(Head(old.fifo))

\* C1 witness: pop_front returned the first of at least two distinct values that
\* consecutive push_back calls had put into an empty deque, across the wrap.
C1_Witness ==
    /\ op = "pop_front"
    /\ res.val # None
    /\ old.size >= 2
    /\ Len(old.bstack) = old.size
    /\ old.start + old.size > array_len
    /\ old.fifo[1] # old.fifo[2]

\* C2: after push_front(x), front() is x; and in a run of push_front and
\* pop_front calls a successful pop_front returns the value pushed last and not
\* yet popped.
C2_LifoFront ==
    /\ (op = "push_front" /\ res.kind = "Unit") => front = Some(arg[1])
    /\ (op = "pop_front" /\ old.fstack # <<>>) => res.val = Some(Head(old.fstack))

\* C2 witness: pop_front returned the newer of two distinct values pushed by
\* push_front, from the last slot, where start had wrapped to from 0.
C2_Witness ==
    /\ op = "pop_front"
    /\ Len(old.fstack) >= 2
    /\ old.fstack[1] # old.fstack[2]
    /\ res.val = Some(old.fstack[1])
    /\ old.start = array_len - 1
    /\ start = 0

\* C3: after push_back(x), back() is x; in a run of push_back and pop_back
\* calls a successful pop_back returns the value pushed last and not yet
\* popped; a successful pop_back lowers len() by exactly 1.
C3_LifoBack ==
    /\ (op = "push_back" /\ res.kind = "Unit") => back = Some(arg[1])
    /\ (op = "pop_back" /\ old.bstack # <<>>) => res.val = Some(Head(old.bstack))
    /\ (op = "pop_back" /\ res.val # None) => len = old.size - 1

\* C3 witness: pop_back returned the newer of two distinct values pushed by
\* push_back, from a slot that lies before start (the live range wrapped).
C3_Witness ==
    /\ op = "pop_back"
    /\ Len(old.bstack) >= 2
    /\ old.bstack[1] # old.bstack[2]
    /\ res.val = Some(old.bstack[1])
    /\ old.start + old.size > array_len
    /\ len = old.size - 1

\* C4: the deque holds as many elements as the abstract sequence, for every
\* i < len() the indexed read of i is the abstract sequence's element i, which
\* is array[(start + i) mod MAX_STORED], and a call of index with i < len()
\* returned that element.
C4_IndexRefinesSeq ==
    /\ len = Len(seq)
    /\ \A i \in 0 .. len - 1 :
          /\ index(i) = seq[i + 1]
          /\ index(i) = array[(start + i) % MAX_STORED]
    /\ (op = "index" /\ arg[1] < len) => res.val = <<seq[arg[1] + 1]>>

\* C4 witness: an indexed read of the last element of a full deque that has
\* seen pops, the element lying in a slot before start.
C4_Witness ==
    /\ op = "index"
    /\ len = array_len
    /\ arg[1] = len - 1
    /\ pops > 0
    /\ start > 0
    /\ index_slot(arg[1]) < start
    /\ res.val = <<seq[len]>>
    /\ seq[1] # seq[len]

\* C5 (as claimed): a call of index with i >= count fails; it returns no slot.
C5_IndexChecksRange ==
    (op = "index" /\ arg[1] >= size) => res.kind = "Panic"

\* C6 (as claimed): an indexed write with i < count changes the logical element
\* i and nothing else; with i >= count it fails and no slot changes.
C6_IndexMutChecksRange ==
    op = "index_mut" =>
        /\ start = old.start
        /\ size = old.size
        /\ IF arg[1] < old.size
           THEN array = [old.array EXCEPT
                            ![(old.start + arg[1]) % MAX_STORED] = arg[2]]
           ELSE res.kind = "Panic" /\ array = old.array

\* C7: a push returns iff count < MAX_STORED before it and panics iff
\* count = MAX_STORED; a push that panics leaves array, start and size as
\* they were, so the deque it panics on is full.
C7_PushFatalWhenFull ==
    op \in {"push_front", "push_back"} =>
        /\ res.kind \in {"Unit", "Panic"}
        /\ res.kind = "Unit" <=> old.size < MAX_STORED
        /\ res.kind = "Panic" <=> old.size = MAX_STORED
        /\ res.kind = "Panic" =>
              /\ array = old.array
              /\ start = old.start
              /\ size = old.size
              /\ size = MAX_STORED

\* C7 witness: the push_back after MAX_STORED consecutive push_back calls onto
\* an empty deque whose start is not 0 panicked.
C7_Witness ==
    /\ op = "push_back"
    /\ res.kind = "Panic"
    /\ start # 0
    /\ Len(bstack) = MAX_STORED

\* C8: a pop returns None iff count = 0 before it, then changes no field and
\* does not panic; a pop_front that returns a value moves start one slot on
\* (mod MAX_STORED) and lowers size by one in the same call.
C8_PopNoneWhenEmpty ==
    op \in {"pop_front", "pop_back"} =>
        /\ res.kind = "Option"
        /\ res.val = None <=> old.size = 0
        /\ res.val = None =>
              /\ array = old.array
              /\ start = old.start
              /\ size = old.size
        /\ (op = "pop_front" /\ res.val # None) =>
              /\ start = (old.start + 1) % MAX_STORED
              /\ size = old.size - 1
              /\ array = old.array

\* C8 witness: pop_front returned None on a deque that pushes and pops had
\* emptied and whose start had moved.
C8_Witness ==
    /\ op = "pop_front"
    /\ res.val = None
    /\ res.kind = "Option"
    /\ pops > 0
    /\ start # 0

\* C9: len() is the number of pushes that returned less the number of pops
\* that returned a value, and lies in 0 .. MAX_STORED; a push that returned
\* raised it by 1, a pop that returned a value lowered it by 1.
C9_LenAccounting ==
    /\ len = pushes - pops
    /\ len \in 0 .. MAX_STORED
    /\ Pushed => len = old.size + 1
    /\ Popped => len = old.size - 1

\* C9 witness: a full deque after more pushes than its capacity, and pops.
C9_Witness ==
    /\ Pushed
    /\ len = MAX_STORED
    /\ pushes > MAX_STORED
    /\ pops > 0

\* C10: is_empty(), front() = None and back() = None each hold iff len() = 0,
\* as state functions and as the results of the calls.
C10_EmptyAgree ==
    /\ is_empty <=> len = 0
    /\ front = None <=> len = 0
    /\ back = None <=> len = 0
    /\ op = "is_empty" => (res.val = <<1>> <=> len = 0)
    /\ op = "front" => (res.val = None <=> len = 0)
    /\ op = "back" => (res.val = None <=> len = 0)

\* C10 witness: back() called on a deque of one element, left after a pop and
\* lying in the last slot: it is present and equals front().
C10_Witness ==
    /\ op = "back"
    /\ len = 1
    /\ pops > 0
    /\ res.val # None
    /\ res.val = front
    /\ start = array_len - 1

\* C11: under any interleaving of pushes and pops at both ends, when count > 0
\* front() is element 0 and back() is element count-1 of the abstract
\* sequence, as state functions and as the results of the calls.
C11_PeeksSeeEnds ==
    /\ len > 0 => (Len(seq) > 0 /\ front = Some(seq[1])
                                /\ back = Some(seq[Len(seq)]))
    /\ (op = "front" /\ len > 0) => res.val = Some(Head(seq))
    /\ (op = "back" /\ len > 0) => res.val = Some(seq[Len(seq)])

\* C11 witness: front() called on a full deque whose ends differ, after pops,
\* whose newest elements came in by push_front onto older ones, the live range
\* wrapping.
C11_Witness ==
    /\ op = "front"
    /\ len = MAX_STORED
    /\ pops > 0
    /\ fstack # <<>>
    /\ Len(fstack) < len
    /\ start > 0
    /\ res.val = Some(seq[1])
    /\ back = Some(seq[len])
    /\ seq[1] # seq[len]

\* C12: push_back(x) directly followed by pop_back() returns x and leaves
\* len(), start and the logical elements as they were before the push.
C12_BackRoundTrip ==
    (trip.on /\ op = "pop_back") =>
        /\ res.val = Some(trip.value)
        /\ len = trip.size
        /\ start = trip.start
        /\ iter = trip.elems

\* C12 witness: such a round trip on a deque of two distinct elements, the
\* pushed element having gone into a slot before start.
C12_Witness ==
    /\ trip.on
    /\ op = "pop_back"
    /\ trip.size = 2
    /\ trip.elems[1] # trip.elems[2]
    /\ trip.start + trip.size >= array_len
    /\ trip.start > 0
    /\ res.val = Some(trip.value)

\* C13: iter yields len() elements, the abstract sequence front to back (so
\* nothing for an empty deque); a call of iter changes no field, and iter
\* produced again after the call yields what the call yielded.
C13_IterYieldsSeq ==
    /\ Len(iter) = len
    /\ iter = seq
    /\ len = 0 => iter = <<>>
    /\ op = "iter" =>
          /\ res.val = seq
          /\ res.val = iter
          /\ array = old.array
          /\ start = old.start
          /\ size = old.size

\* C13 witness: iter called on a deque whose live range crosses the end of the
\* array and whose first and last elements differ.
C13_Witness ==
    /\ op = "iter"
    /\ len >= 2
    /\ start + len > array_len
    /\ Len(res.val) = len
    /\ res.val[1] # res.val[len]
    /\ res.val[len] = array[index_slot(len - 1)]
    /\ index_slot(len - 1) < start

\* C14: a call of len, is_empty, front, back or of index with i < count
\* leaves array, start and size as they were.
C14_QueriesDoNotMutate ==
    (\/ op \in {"len", "is_empty", "front", "back"}
     \/ op = "index" /\ arg[1] < old.size) =>
        /\ array = old.array
        /\ start = old.start
        /\ size = old.size

\* C14 witness: back() called on a full deque that has been pushed to and
\* popped from.
C14_Witness ==
    /\ op = "back"
    /\ old.size = MAX_STORED
    /\ size = MAX_STORED
    /\ pops > 0
    /\ res.val # None

\* C15: new() gives start = 0, size = 0 and every slot T::default(); in every
\* reachable state start is in [0, MAX_STORED) and size in [0, MAX_STORED], so
\* the slots that push, pop, front and back use are slots of the array.
C15_IndexRange ==
    /\ start \in 0 .. MAX_STORED - 1
    /\ size \in 0 .. MAX_STORED
    /\ op = "new" =>
          /\ start = 0
          /\ size = 0
          /\ \A s \in 0 .. MAX_STORED - 1 : array[s] = T_default
    /\ DOMAIN array = 0 .. MAX_STORED - 1
    /\ push_back_index \in DOMAIN array
    /\ push_front_start \in DOMAIN array
    /\ pop_front_start \in DOMAIN array
    /\ size > 0 => back_slot \in DOMAIN array

\* C15 witness: a pop_back that returned None on an emptied deque whose start
\* is the last slot.
C15_Witness ==
    /\ op = "pop_back"
    /\ res.val = None
    /\ pushes > 0
    /\ start = MAX_STORED - 1
    /\ size = 0

\* The slots of the live range of a deque with the given start and size.
LiveSlots(st, sz) == {(st + k) % MAX_STORED : k \in 0 .. sz - 1}

\* C16: a push that returned wrote one slot, one outside the live range it
\* found (push_back the slot (start + size) mod MAX_STORED, push_front the slot
\* before start), and left every other slot alone; a pop wrote no slot; the
\* elements that stay live keep their slots; pop_back leaves start alone.
C16_NoShiftNoOverwrite ==
    /\ Pushed =>
          LET w == IF op = "push_back"
                   THEN (old.start + old.size) % MAX_STORED
                   ELSE (old.start + MAX_STORED - 1) % MAX_STORED
          IN /\ w \notin LiveSlots(old.start, old.size)
             /\ array[w] = arg[1]
             /\ \A s \in 0 .. MAX_STORED - 1 : s # w => array[s] = old.array[s]
             /\ LiveSlots(start, size) = LiveSlots(old.start, old.size) \cup {w}
    /\ op \in {"pop_front", "pop_back"} =>
          /\ array = old.array
          /\ LiveSlots(start, size) \subseteq LiveSlots(old.start, old.size)
    /\ op = "pop_back" => start = old.start

\* C16 witness: a push_back that filled the deque, into the slot just before
\* start, every other slot holding a live element that kept its value.
C16_Witness ==
    /\ op = "push_back"
    /\ res.kind = "Unit"
    /\ size = MAX_STORED
    /\ start > 0
    /\ array[start - 1] = arg[1]
    /\ old.array[start - 1] # arg[1]
    /\ \A s \in 0 .. MAX_STORED - 1 : s # start - 1 => array[s] = old.array[s]

\* C17: a push_front that returned set start to MAX_STORED - 1 if it was 0 and
\* to start - 1 otherwise, never below 0, stored the value in the slot at the
\* new start and raised size by 1; a pop_front that returned a value set start
\* to (start + 1) mod MAX_STORED.
C17_StartWraps ==
    /\ (op = "push_front" /\ res.kind = "Unit") =>
          /\ start = (IF old.start = 0 THEN MAX_STORED - 1 ELSE old.start - 1)
          /\ start >= 0
          /\ array[start] = arg[1]
          /\ size = old.size + 1
    /\ (op = "pop_front" /\ res.val # None) =>
          /\ start = (IF old.start = MAX_STORED - 1 THEN 0 ELSE old.start + 1)
          /\ size = old.size - 1

\* C17 witness: push_front on a non-empty deque whose start was 0.
C17_Witness ==
    /\ op = "push_front"
    /\ res.kind = "Unit"
    /\ old.start = 0
    /\ old.size > 0
    /\ start = MAX_STORED - 1
    /\ array[MAX_STORED - 1] = arg[1]

\* What the calls return, as functions of a logical sequence alone.
FrontOf(q) == IF q = <<>> THEN None ELSE Some(q[1])
BackOf(q) == IF q = <<>> THEN None ELSE Some(q[Len(q)])

\* C18: front, back, the pops and iter read only slots of the live range, and
\* every result (len, is_empty, front, back, iter, what a pop returns, whether
\* a push returns) is a function of the logical sequence alone, which itself
\* moves by prepend / append / remove-first / remove-last: so start and the
\* dead slots show in no result, now or after further pushes and pops.
C18_DeadSlotsUnobservable ==
    /\ size > 0 => /\ start \in LiveSlots(start, size)
                   /\ back_slot \in LiveSlots(start, size)
    /\ \A k \in 0 .. len - 1 : index_slot(k) \in LiveSlots(start, size)
    /\ len = Len(seq)
    /\ is_empty <=> seq = <<>>
    /\ front = FrontOf(seq)
    /\ back = BackOf(seq)
    /\ iter = seq
    /\ op = "pop_front" => res.val = FrontOf(old.seq)
    /\ op = "pop_back" => res.val = BackOf(old.seq)
    /\ op \in {"push_front", "push_back"} =>
          (res.kind = "Panic" <=> Len(old.seq) = MAX_STORED)

\* C18 witness: a push_back onto a deque that pops had emptied, whose start was
\* not 0 and none of whose slots held T::default() any more; the deque then
\* shows the pushed value at both ends, as a new() one would.
C18_Witness ==
    /\ op = "push_back"
    /\ res.kind = "Unit"
    /\ old.size = 0
    /\ old.start # 0
    /\ \A s \in 0 .. MAX_STORED - 1 : old.array[s] # T_default
    /\ front = Some(arg[1])
    /\ back = Some(arg[1])
    /\ iter = <<arg[1]>>

\* C19: in a run of push_front and pop_back calls begun in any reachable
\* state, every successful pop_back returns the oldest value not yet returned
\* (the values that were in the deque, back first, then the values pushed by
\* push_front, in push order).
C19_ReverseFifo ==
    /\ Len(rfifo) = len
    /\ (op = "pop_back" /\ res.val # None) =>
          /\ old.rfifo # <<>>
          /\ res.val = Some(Head(old.rfifo))

\* C19 witness: pop_back returned the first of at least two distinct values
\* that consecutive push_front calls had put into an empty deque, start having
\* wrapped below 0 on the way.
C19_Witness ==
    /\ op = "pop_back"
    /\ res.val # None
    /\ old.size >= 2
    /\ Len(old.fstack) = old.size
    /\ old.start + old.size > array_len
    /\ old.rfifo[1] # old.rfifo[2]
    /\ res.val = Some(old.fstack[Len(old.fstack)])

\* C20: push_front(x) directly followed by pop_front() returns x and leaves
\* start, size and the logical elements as they were before the push.
C20_FrontRoundTrip ==
    (trip.on /\ op = "pop_front") =>
        /\ res.val = Some(trip.value)
        /\ start = trip.start
        /\ size = trip.size
        /\ iter = trip.elems

\* C20 witness: such a round trip on a deque of two distinct elements whose
\* start was 0, so that start went to the last slot and back.
C20_Witness ==
    /\ trip.on
    /\ op = "pop_front"
    /\ trip.start = 0
    /\ old.start = MAX_STORED - 1
    /\ start = 0
    /\ trip.size = 2
    /\ trip.elems[1] # trip.elems[2]
    /\ res.val = Some(trip.value)

====
